---- MODULE Spec2Model ----
(***************************************************************************)
(* Model of scripts/retrain.py of solana-predictor: the retraining run     *)
(* (main) over the directories models/, model_backups/, feedback/,         *)
(* feedback/archived/, data/ and the file logs/retraining.log.             *)
(*                                                                         *)
(* A directory is a function from the names present in it to the contents  *)
(* of the files: a name outside DOMAIN is a file that does not exist.      *)
(* Path.rename is POSIX rename: it silently replaces an existing target.   *)
(*                                                                         *)
(* The environment is the feedback writer, which creates files matching    *)
(* feedback_*.csv at any time, the wall clock, and the file system, whose  *)
(* operations may fail with OSError.  The historical file is a well-formed *)
(* series of positive prices in timestamp order; a feedback file is either *)
(* unreadable for pd.read_csv or holds one row of the same schema, whose   *)
(* timestamp may lie before the history.                                   *)
(***************************************************************************)
EXTENDS Integers, Sequences, FiniteSets, TLC

(***************************************************************************)
(* Bounds of the model                                                     *)
(***************************************************************************)
MaxEvents == 4     \* invocations of main, new feedback files, failing file
                   \* operations and clock ticks in one behaviour, together
ExtraNames == 3    \* feedback file names beyond the trigger threshold
FewFiles == 2      \* feedback files of the small initial feedback directory
ShortLen == 2      \* rows of the short historical file
HistExtra == 2     \* rows of the long historical file beyond the largest window

(***************************************************************************)
(* Program constants                                                       *)
(***************************************************************************)
THRESHOLD == 10    \* main: feedback_count < 10
RsiPeriod == 14    \* calculate_rsi(prices, period=14)
MaShort == 7       \* rolling(7): ma_7
MaMid == 30        \* rolling(30): ma_30
MaLong == 50       \* rolling(50): ma_50
VolWindow == 7     \* rolling(7): volume_ma
BbWindow == 20     \* rolling(20): bb_middle, bb_std
SplitNum == 8      \* int(len(X) * 0.8)
SplitDen == 10

VARIABLES
    pc,          \* position of the current run of main, "idle" between runs
    force,       \* force_retrain of the current run, or of the last one
    feedback_count, \* main's local, read once at line 309
    data,        \* data/: "solana_historical.csv" -> the price series in it
    models,      \* models/: "model.pkl", "scaler.pkl", "model_metrics.json"
    backups,     \* model_backups/: <<kind, timestamp>> -> contents
    feedback,    \* feedback/: feedback_<n>.csv -> file
    archived,    \* feedback/archived/: feedback_<n>.csv -> file
    log,         \* logs/retraining.log: the records, oldest first
    clock,       \* datetime.now() in whole seconds
    timestamp,   \* backup_current_model's local
    X,           \* load_training_data's result: the rows of X, in order
    X_train,     \* train_new_model's partitions
    X_test,
    consumed,    \* ids of the feedback files merged by load_feedback_data
    todo,        \* the files the archiving loop's glob returned, not yet moved
    moved,       \* ids of the feedback files this run has archived
    runs,        \* runs started
    events,      \* invocations, new files, failures and ticks so far
    ever,        \* every feedback file that ever existed
    exit_status, \* exit status of the last finished run
    outcome,     \* how the last finished run ended
    pre          \* the directories and the log as they were when the run started

vars == <<pc, force, feedback_count, data, models, backups, feedback, archived,
          log, clock, timestamp, X, X_train, X_test, consumed, todo, moved,
          runs, events, ever, exit_status, outcome, pre>>

----------------------------------------------------------------------------
(* Directories *)

Exists(dir, name) == name \in DOMAIN dir

Remove(dir, name) == [n \in DOMAIN dir \ {name} |-> dir[n]]

Put(dir, name, contents) ==
    [n \in DOMAIN dir \cup {name} |-> IF n = name THEN contents ELSE dir[n]]

EmptyDir == [n \in {} |-> 0]

HISTORICAL == "solana_historical.csv"
MODEL == "model.pkl"
SCALER == "scaler.pkl"
METRICS == "model_metrics.json"

Names == 1..(THRESHOLD + ExtraNames)

\* dir.glob("feedback_*.csv"): the names in the directory, in the order the
\* directory lists them, taken here to be ascending
RECURSIVE Glob(_)
Glob(S) ==
    IF S = {} THEN <<>>
    ELSE LET n == CHOOSE m \in S : \A k \in S : m <= k
         IN <<n>> \o Glob(S \ {n})

----------------------------------------------------------------------------
(* Feature engineering: which rows of the frame survive dropna *)

HistLong == MaLong + HistExtra

\* pd.read_csv of a well-formed price series of n bars: strictly increasing
\* timestamps
Ramp(n) == [i \in 1..n |-> [ts |-> i, close |-> i, volume |-> 1]]

\* A historical file is described by its number of bars, the bar from which
\* the close stays at one price and the bar from which nothing is traded; both
\* are bars + 1 in a file whose price rises and whose volume is positive
\* throughout.
Rising(n) == [bars |-> n, flat_from |-> n + 1, quiet_from |-> n + 1]

\* df = pd.read_csv(historical_path): every raw field is defined, close > 0
ReadCsv(file) ==
    [i \in 1..file.bars |->
        [ts |-> i,
         close |-> IF i < file.flat_from THEN i ELSE file.flat_from,
         volume |-> IF i < file.quiet_from THEN 1 ELSE 0]]

\* the row a feedback file contributes
FeedbackRow(f) ==
    [ts |-> IF f.early THEN 0 ELSE HistLong + f.id, close |-> f.id, volume |-> 1]

Max(a, b) == IF a >= b THEN a ELSE b

\* delta = prices.diff(): undefined at the first row, where(delta > 0, 0) makes it 0
Delta(df, i) == IF i = 1 THEN 0 ELSE df[i].close - df[i - 1].close

\* the value of a column at row j: the gains and losses of calculate_rsi, the volume
Cell(df, column, j) ==
    IF column = "gain" THEN Max(Delta(df, j), 0)
    ELSE IF column = "loss" THEN Max(0 - Delta(df, j), 0)
    ELSE df[j].volume

\* rolling(window).mean() is a sum over the window, divided by its length
RECURSIVE RollingSum(_, _, _, _)
RollingSum(df, column, lo, hi) ==
    IF lo > hi THEN 0 ELSE Cell(df, column, lo) + RollingSum(df, column, lo + 1, hi)

\* calculate_rsi: gain / loss is NaN exactly when both rolling means are zero
RsiDefined(df, i) ==
    /\ i >= RsiPeriod
    /\ ~ ( RollingSum(df, "gain", i - RsiPeriod + 1, i) = 0
           /\ RollingSum(df, "loss", i - RsiPeriod + 1, i) = 0 )

\* volume / volume_ma is NaN when the window is not full or is all zero
VolumeRatioDefined(df, i) ==
    /\ i >= VolWindow
    /\ RollingSum(df, "volume", i - VolWindow + 1, i) > 0

\* dropna keeps row i when every column is defined there
RowDefined(df, i) ==
    /\ i >= 2                       \* price_change, log_return (prices > 0)
    /\ i >= MaShort /\ i >= MaMid /\ i >= MaLong
    /\ VolumeRatioDefined(df, i)
    /\ RsiDefined(df, i)
    /\ i >= BbWindow
    /\ i < Len(df)                  \* target = close.shift(-1)

RECURSIVE KeepFrom(_, _)
KeepFrom(df, i) ==
    IF i > Len(df) THEN <<>>
    ELSE (IF RowDefined(df, i) THEN <<df[i]>> ELSE <<>>) \o KeepFrom(df, i + 1)

calculate_technical_features(df) == KeepFrom(df, 1)

\* load_feedback_data: the rows of the readable files, in glob order
RECURSIVE ReadAll(_, _)
ReadAll(dir, names) ==
    IF names = <<>> THEN <<>>
    ELSE (IF dir[Head(names)].ok THEN <<FeedbackRow(dir[Head(names)])>> ELSE <<>>)
         \o ReadAll(dir, Tail(names))

load_feedback_data(dir) == ReadAll(dir, Glob(DOMAIN dir))

\* load_training_data, when the historical file exists
load_training_data(dataDir, feedbackDir) ==
    calculate_technical_features(ReadCsv(dataDir[HISTORICAL]) \o load_feedback_data(feedbackDir))

split_idx(n) == (n * SplitNum) \div SplitDen

----------------------------------------------------------------------------
(* Initial states *)

Artifact(v) == [n \in {MODEL, SCALER, METRICS} |-> [version |-> v, whole |-> TRUE]]

\* feedback/ holding n readable files; the first is out of order when early
InitialFeedback(n, early) ==
    [k \in 1..n |-> [id |-> k, ok |-> TRUE, early |-> early /\ k = 1]]

Snapshot == [models |-> models, backups |-> backups, log |-> log,
             feedback |-> feedback, archived |-> archived]

Init ==
    /\ pc = "idle"
    /\ force = FALSE
    /\ feedback_count = 0
    /\ data \in {EmptyDir,
                 [n \in {HISTORICAL} |-> Rising(ShortLen)],
                 [n \in {HISTORICAL} |-> Rising(HistLong)]}
    /\ models \in {EmptyDir, Artifact(0), Remove(Artifact(0), MODEL)}
    /\ backups = EmptyDir
    /\ feedback \in {InitialFeedback(0, FALSE),
                     InitialFeedback(FewFiles, TRUE),
                     InitialFeedback(THRESHOLD - 1, FALSE)}
    /\ archived = EmptyDir
    /\ log = <<>>
    /\ clock = 0
    /\ timestamp = 0
    /\ X = <<>>
    /\ X_train = <<>>
    /\ X_test = <<>>
    /\ consumed = {}
    /\ todo = <<>>
    /\ moved = {}
    /\ runs = 0
    /\ events = 0
    /\ ever = {feedback[n] : n \in DOMAIN feedback}
    /\ exit_status = 0
    /\ outcome = "none"
    /\ pre = [models |-> models, backups |-> backups, log |-> log,
              feedback |-> feedback, archived |-> archived]

----------------------------------------------------------------------------
(* The run of main, one step per stage; every step that touches a file     *)
(* may raise, which main's except clause turns into sys.exit(1).           *)

control == <<pc, force, feedback_count, timestamp, X, X_train, X_test,
             consumed, todo, moved, exit_status, outcome>>

\* the run ends: main returns (status 0) or sys.exit(1)
Finish(status, how) ==
    /\ pc' = "idle"
    /\ exit_status' = status
    /\ outcome' = how
    /\ feedback_count' = 0
    /\ timestamp' = 0
    /\ X' = <<>>
    /\ X_train' = <<>>
    /\ X_test' = <<>>
    /\ consumed' = {}
    /\ todo' = <<>>
    /\ moved' = {}

Raise == Finish(1, "error")

\* a file operation fails: OSError
Fault ==
    /\ events < MaxEvents
    /\ events' = events + 1
    /\ Raise
    /\ UNCHANGED force

Goto(next) ==
    /\ pc' = next
    /\ UNCHANGED <<exit_status, outcome>>

\* the gate with the comparison off by one
InsufficientFeedback_OffByOne(force_retrain, count) ==
    ~force_retrain /\ count <= THRESHOLD

\* main, line 311: the trigger gate
InsufficientFeedback(force_retrain, count) == ~force_retrain /\ count < THRESHOLD

\* main, lines 300-314
Invoke(force_retrain) ==
    /\ pc = "idle"
    /\ events < MaxEvents
    /\ events' = events + 1
    /\ runs' = runs + 1
    /\ force' = force_retrain
    /\ pre' = Snapshot
    /\ LET count == Cardinality(DOMAIN feedback)
       IN IF InsufficientFeedback(force_retrain, count)
          THEN Finish(0, "skipped")
          ELSE /\ Goto("load")
               /\ feedback_count' = count
               /\ UNCHANGED <<timestamp, X, X_train, X_test, consumed, todo, moved>>
    /\ UNCHANGED <<data, models, backups, feedback, archived, log, clock, ever>>

\* ids of the files load_feedback_data merges: those read_csv can read
Readable(dir) == {dir[n].id : n \in {m \in DOMAIN dir : dir[m].ok}}

\* the loader also giving up when there is no feedback to merge
DataUnavailable_NeedsFeedback(dataDir, feedbackDir) ==
    ~Exists(dataDir, HISTORICAL) \/ DOMAIN feedbackDir = {}

\* load_training_data returns None: lines 122-124, the only return None
DataUnavailable(dataDir, feedbackDir) == ~Exists(dataDir, HISTORICAL)

\* main, lines 318-323
Load ==
    /\ pc = "load"
    /\ IF DataUnavailable(data, feedback)
       THEN /\ Finish(0, "nodata")
            /\ UNCHANGED force
       ELSE /\ Goto("backup_model")
            /\ X' = load_training_data(data, feedback)
            /\ consumed' = Readable(feedback)
            /\ UNCHANGED <<force, feedback_count, timestamp, X_train, X_test, todo, moved>>
    /\ UNCHANGED <<data, models, backups, feedback, archived, log, clock,
                   runs, events, ever, pre>>

\* current.rename(BACKUP_DIR / "<kind>_backup_<timestamp>")
RenameToBackup(name, kind, stamp) ==
    /\ backups' = Put(backups, <<kind, stamp>>, models[name])
    /\ models' = Remove(models, name)

\* backup_current_model, lines 164-170
BackupModel ==
    /\ pc = "backup_model"
    /\ IF Exists(models, MODEL)
       THEN \/ /\ RenameToBackup(MODEL, "model", clock)
               /\ timestamp' = clock
               /\ Goto("backup_scaler")
               /\ UNCHANGED <<force, feedback_count, X, X_train, X_test,
                              consumed, todo, moved, events>>
            \/ /\ Fault
               /\ UNCHANGED <<models, backups>>
       ELSE /\ Goto("train")
            /\ UNCHANGED <<models, backups, force, feedback_count, timestamp, X,
                           X_train, X_test, consumed, todo, moved, events>>
    /\ UNCHANGED <<data, feedback, archived, log, clock, runs, ever, pre>>

\* backup_current_model, lines 173-180: a companion file, if it exists
BackupCompanion(here, name, kind, next) ==
    /\ pc = here
    /\ IF Exists(models, name)
       THEN \/ /\ RenameToBackup(name, kind, timestamp)
               /\ Goto(next)
               /\ UNCHANGED <<force, feedback_count, timestamp, X, X_train, X_test,
                              consumed, todo, moved, events>>
            \/ /\ Fault
               /\ UNCHANGED <<models, backups>>
       ELSE /\ Goto(next)
            /\ UNCHANGED <<models, backups, force, feedback_count, timestamp, X,
                           X_train, X_test, consumed, todo, moved, events>>
    /\ UNCHANGED <<data, feedback, archived, log, clock, runs, ever, pre>>

BackupScaler == BackupCompanion("backup_scaler", SCALER, "scaler", "backup_metrics")

BackupMetrics == BackupCompanion("backup_metrics", METRICS, "metrics", "train")

\* train_new_model, lines 190-200: the positional split; StandardScaler.fit_transform
\* raises ValueError on an empty training partition
Train ==
    /\ pc = "train"
    /\ LET idx == split_idx(Len(X))
       IN IF idx = 0
          THEN /\ Raise
               /\ UNCHANGED force
          ELSE /\ Goto("save_model")
               /\ X_train' = SubSeq(X, 1, idx)
               /\ X_test' = SubSeq(X, idx + 1, Len(X))
               /\ UNCHANGED <<force, feedback_count, timestamp, X, consumed, todo, moved>>
    /\ UNCHANGED <<data, models, backups, feedback, archived, log, clock,
                   runs, events, ever, pre>>

\* save_model: with open(path, 'wb') as f: dump(...). open truncates, so a
\* failed write leaves the file as it was (open raised) or cut short (dump raised)
Write(here, name, next) ==
    /\ pc = here
    /\ \/ /\ models' = Put(models, name, [version |-> runs, whole |-> TRUE])
          /\ Goto(next)
          /\ UNCHANGED <<force, feedback_count, timestamp, X, X_train, X_test,
                         consumed, todo, moved, events>>
       \/ /\ Fault
          /\ \/ UNCHANGED models
             \/ models' = Put(models, name, [version |-> runs, whole |-> FALSE])
    /\ UNCHANGED <<data, backups, feedback, archived, log, clock, runs, ever, pre>>

SaveModel == Write("save_model", MODEL, "save_scaler")

SaveScaler == Write("save_scaler", SCALER, "save_metrics")

SaveMetrics == Write("save_metrics", METRICS, "log")

\* log_retraining, lines 286-295
LogRetraining ==
    /\ pc = "log"
    /\ \/ /\ log' = Append(log, [action |-> "model_retraining", run |-> runs,
                                 samples_total |-> Len(X),
                                 feedback_samples |-> feedback_count])
          /\ Goto("archive")
          /\ UNCHANGED <<force, feedback_count, timestamp, X, X_train, X_test,
                         consumed, todo, moved, events>>
       \/ /\ Fault
          /\ UNCHANGED log
    /\ UNCHANGED <<data, models, backups, feedback, archived, clock, runs, ever, pre>>

\* main, lines 343-344: the archiving loop's glob, only if feedback_count > 0
ArchiveGlob ==
    /\ pc = "archive"
    /\ IF feedback_count > 0
       THEN /\ Goto("archive_move")
            /\ todo' = Glob(DOMAIN feedback)
            /\ UNCHANGED <<force, feedback_count, timestamp, X, X_train, X_test,
                           consumed, moved>>
       ELSE /\ Finish(0, "success")
            /\ UNCHANGED force
    /\ UNCHANGED <<data, models, backups, feedback, archived, log, clock,
                   runs, events, ever, pre>>

\* main, lines 345-347: one iteration of the loop, or its end
ArchiveMove ==
    /\ pc = "archive_move"
    /\ IF todo = <<>>
       THEN /\ Finish(0, "success")
            /\ UNCHANGED <<feedback, archived, events, force>>
       ELSE LET file == Head(todo)
            IN \/ /\ archived' = Put(archived, file, feedback[file])
                  /\ feedback' = Remove(feedback, file)
                  /\ moved' = moved \cup {feedback[file].id}
                  /\ todo' = Tail(todo)
                  /\ Goto("archive_move")
                  /\ UNCHANGED <<force, feedback_count, timestamp, X, X_train,
                                 X_test, consumed, events>>
               \/ /\ Fault
                  /\ UNCHANGED <<feedback, archived>>
    /\ UNCHANGED <<data, models, backups, log, clock, runs, ever, pre>>

----------------------------------------------------------------------------
(* The environment *)

Least(S) == CHOOSE m \in S : \A k \in S : m <= k

\* names a new feedback file may take: the least name free in feedback/ (which
\* may be the name of an archived file) and the least name never used
FreeNames ==
    LET free == Names \ DOMAIN feedback
        fresh == Names \ (DOMAIN feedback \cup DOMAIN archived)
    IN (IF free = {} THEN {} ELSE {Least(free)})
       \cup (IF fresh = {} THEN {} ELSE {Least(fresh)})

\* The feedback writer creates feedback_<n>.csv. A file that arrives between
\* the load and the archiving glob has the same effect wherever in between it
\* arrives, so arrivals are taken at the three distinguishable points only.
AddFeedback(n, ok, early) ==
    /\ pc \in {"idle", "load", "archive"}
    /\ events < MaxEvents
    /\ n \in FreeNames
    /\ ok \/ ~early        \* an unreadable file contributes no row
    /\ LET file == [id |-> Cardinality(ever) + 1, ok |-> ok, early |-> early]
       IN /\ feedback' = Put(feedback, n, file)
          /\ ever' = ever \cup {file}
    /\ events' = events + 1
    /\ UNCHANGED <<control, data, models, backups, archived, log, clock, runs, pre>>

\* the wall clock advances; only the second a backup is taken in matters
Tick ==
    /\ pc = "idle"
    /\ events < MaxEvents
    /\ events' = events + 1
    /\ clock' = clock + 1
    /\ UNCHANGED <<control, data, models, backups, feedback, archived, log,
                   runs, ever, pre>>

Next ==
    \/ \E f \in BOOLEAN : Invoke(f)
    \/ Load
    \/ BackupModel
    \/ BackupScaler
    \/ BackupMetrics
    \/ Train
    \/ SaveModel
    \/ SaveScaler
    \/ SaveMetrics
    \/ LogRetraining
    \/ ArchiveGlob
    \/ ArchiveMove
    \/ \E n \in Names, ok \in BOOLEAN, early \in BOOLEAN : AddFeedback(n, ok, early)
    \/ Tick

Spec == Init /\ [][Next]_vars

----------------------------------------------------------------------------
(* calculate_technical_features on its own: a forced run stands at the      *)
(* loading stage of an installation without feedback, before a historical   *)
(* file of any length up to HistLong, whose close may stay at one price     *)
(* from some bar on and whose volume may be zero from some bar on.          *)

HistoricalFiles ==
    {[bars |-> n, flat_from |-> c, quiet_from |-> q] :
        n \in 0..HistLong, c \in 1..(HistLong + 1), q \in 1..(HistLong + 1)}

\* one description for each series
Canonical(file) ==
    /\ file.flat_from <= file.bars + 1
    /\ file.quiet_from <= file.bars + 1

FeatureInit ==
    /\ pc = "load"
    /\ force = TRUE
    /\ feedback_count = 0
    /\ data \in {EmptyDir} \cup
                {[n \in {HISTORICAL} |-> file] : file \in {f \in HistoricalFiles : Canonical(f)}}
    /\ models = EmptyDir
    /\ backups = EmptyDir
    /\ feedback = EmptyDir
    /\ archived = EmptyDir
    /\ log = <<>>
    /\ clock = 0
    /\ timestamp = 0
    /\ X = <<>>
    /\ X_train = <<>>
    /\ X_test = <<>>
    /\ consumed = {}
    /\ todo = <<>>
    /\ moved = {}
    /\ runs = 1
    /\ events = 1
    /\ ever = {}
    /\ exit_status = 0
    /\ outcome = "none"
    /\ pre = [models |-> models, backups |-> backups, log |-> log,
              feedback |-> feedback, archived |-> archived]

FeatureNext == Load

FeatureSpec == FeatureInit /\ [][FeatureNext]_vars

----------------------------------------------------------------------------
(* Properties *)

Finished == pc = "idle" /\ runs > 0

Failed == Finished /\ outcome \in {"error", "nodata"}

Contents(dir) == {dir[n] : n \in DOMAIN dir}

\* every file of directory old is in directory new under its name, unchanged
Kept(old, new) == \A n \in DOMAIN old : n \in DOMAIN new /\ new[n] = old[n]

Kind(name) == IF name = MODEL THEN "model" ELSE IF name = SCALER THEN "scaler" ELSE "metrics"

\* C1: a run that ends in failure leaves the current artifact (model, scaler
\* and metrics) exactly as it was when the run started.
C1_FailedRunKeepsArtifact ==
    (Finished /\ outcome = "error") => models = pre.models

\* C2: while a run is in progress, a reader that finds model_metrics.json
\* also finds model.pkl, provided that held when the run started.
C2_NoTornArtifact ==
    (pc # "idle" /\ (Exists(pre.models, METRICS) => Exists(pre.models, MODEL)))
        => (Exists(models, METRICS) => Exists(models, MODEL))

\* C3: no prior artifact is lost: every file that was in the current slot when
\* the run started is still current or is in the backup directory under a
\* name of its kind, and every backup that existed still exists unchanged.
C3_NoArtifactLost ==
    /\ \A n \in DOMAIN pre.models :
          \/ n \in DOMAIN models /\ models[n] = pre.models[n]
          \/ \E b \in DOMAIN backups : b[1] = Kind(n) /\ backups[b] = pre.models[n]
    /\ Kept(pre.backups, backups)

\* C4: a run that fails (missing historical file, training exception, write
\* failure) ends with a non-zero exit status.
C4_FailureExitsNonZero == Failed => exit_status # 0

\* C5: the trigger gate: a run without the force flag and with fewer than 10
\* feedback files returns at once with every directory and the log unchanged; a
\* run with the flag, or with at least 10 files, goes on to the loading stage.
C5_TriggerGate ==
    [][ runs' = runs + 1 =>
          /\ UNCHANGED <<data, models, backups, log, feedback, archived>>
          /\ IF ~force' /\ Cardinality(DOMAIN feedback) < THRESHOLD
             THEN pc' = "idle" /\ outcome' = "skipped" /\ exit_status' = 0
             ELSE pc' = "load" ]_vars

\* an unforced run was skipped and a later unforced run has passed the gate
C5_Witness ==
    /\ outcome = "skipped"
    /\ pc = "load"
    /\ ~force
    /\ feedback_count >= THRESHOLD

\* C6: when the historical file is missing the run ends at the loading stage
\* with models, backups, log and archive as they were when it started and every
\* feedback file still in place; when the file exists and there are no feedback
\* files the run goes on, with nothing consumed, on the historical rows alone.
C6_MissingHistoryAbortsCleanly ==
    [][ (pc = "load" /\ pc' # "load") =>
          IF ~Exists(data, HISTORICAL)
          THEN /\ pc' = "idle"
               /\ outcome' = "nodata"
               /\ models' = pre.models
               /\ backups' = pre.backups
               /\ log' = pre.log
               /\ archived' = pre.archived
               /\ Kept(pre.feedback, feedback')
               /\ UNCHANGED feedback
          ELSE DOMAIN feedback = {} =>
                 /\ pc' = "backup_model"
                 /\ consumed' = {}
                 /\ X' = calculate_technical_features(Ramp(data[HISTORICAL].bars))
                 /\ UNCHANGED <<outcome, exit_status>> ]_vars

\* a run over a populated installation has ended for lack of the historical file
C6_Witness ==
    /\ Finished
    /\ outcome = "nodata"
    /\ Exists(models, MODEL)
    /\ DOMAIN feedback # {}

\* C7: every feedback file that ever existed is in feedback/ or in
\* feedback/archived/, and a run that is skipped or finds no historical file
\* leaves every feedback file in place.
C7_FeedbackNeverLost ==
    /\ ever \subseteq Contents(feedback) \cup Contents(archived)
    /\ (Finished /\ outcome \in {"skipped", "nodata"}) => Kept(pre.feedback, feedback)

\* C8: every feedback file the run has archived is one the run merged into its
\* training data.
C8_ArchivedWasConsumed == moved \subseteq consumed

\* C9: the log is append-only; a successful run appends exactly one record, a
\* skipped or failed run appends none.
C9_LogOnlyOnSuccess ==
    /\ Len(log) >= Len(pre.log) /\ SubSeq(log, 1, Len(pre.log)) = pre.log
    /\ (Finished /\ outcome = "success") => Len(log) = Len(pre.log) + 1
    /\ (Finished /\ outcome \in {"skipped", "nodata", "error"}) => log = pre.log

\* C10: the split is positional and strictly chronological: the first 80% of
\* the rows are the training rows, the rest the test rows, and every training
\* row is earlier than every test row.
C10_ChronologicalSplit ==
    /\ X_train # <<>> =>
          /\ X_train \o X_test = X
          /\ Len(X_train) = (Len(X) * SplitNum) \div SplitDen
    /\ \A i \in 1..Len(X_train), j \in 1..Len(X_test) : X_train[i].ts < X_test[j].ts

\* the largest lookback window among the computed indicators
max_lookback ==
    Max(Max(Max(MaShort, MaMid), Max(MaLong, VolWindow)), Max(BbWindow, RsiPeriod))

\* the frame calculate_technical_features was given, once loading has gone through
Loaded == pc = "backup_model" /\ Exists(data, HISTORICAL)

\* C11: for a series of n bars with every raw field defined,
\* calculate_technical_features emits no row with an undefined indicator or
\* target, and emits exactly n - (max_lookback - 1) - 1 rows (none when that is
\* not positive): the rows before the largest window is filled and the final
\* bar are excluded, and no other row is dropped.
C11_FeatureRows ==
    Loaded =>
        LET df == ReadCsv(data[HISTORICAL])
            n == Len(df)
        IN /\ \A k \in 1..Len(X) : RowDefined(df, X[k].ts)
           /\ Len(X) = Max(n - (max_lookback - 1) - 1, 0)
           /\ X = SubSeq(df, max_lookback, n - 1)

====
